---- MODULE Spec2Model ----
(***************************************************************************)
(* RAGService (src/rag_service.py): populate_database, retrieve_context    *)
(* and check_connection against one named collection of a vector database  *)
(* and an embedding service.                                               *)
(*                                                                         *)
(* Text is a sequence of tokens: " " is whitespace, every other token is a *)
(* word or sentence.  The reserved title is the one-token text "Summary".  *)
(***************************************************************************)
EXTENDS Integers, Sequences, FiniteSets, TLC

\* ------------------------------------------------------------------ bounds
MaxHeaders == 2
MaxGrain == 2
LongLen == 11
MaxHits == 3

\* ------------------------------------------------------- program constants
VectorSize == 768
IdStride == 10
DefaultTopK == 3

Procs == {1, 2}
Paths == {"corpus", "other"}
None == [none |-> TRUE]
NoColl == [absent |-> TRUE]

WS == " "
Summary == <<"Summary">>
Untitled == <<"Untitled">>
NoContext == "No relevant context found in the knowledge base."

Min(a, b) == IF a < b THEN a ELSE b

\* ------------------------------------------------------------- str.strip()
RECURSIVE LStrip(_)
LStrip(s) == IF s # <<>> /\ Head(s) = WS THEN LStrip(Tail(s)) ELSE s

RECURSIVE RStrip(_)
RStrip(s) ==
    IF s # <<>> /\ s[Len(s)] = WS THEN RStrip(SubSeq(s, 1, Len(s) - 1)) ELSE s

Strip(s) == RStrip(LStrip(s))

\* dict.get(key, default)
Get(rec, key, default) == IF key \in DOMAIN rec THEN rec[key] ELSE default

\* --------------------------------------------------------- the corpus file
LongText == [i \in 1..LongLen |-> "w"]

sPadded == [tile |-> <<WS, "A", WS>>, content |-> <<"x", WS, "Summary">>]
sLower == [tile |-> <<"summary">>, content |-> <<WS, "y">>]
sLong == [tile |-> <<"L">>, content |-> LongText]
sSummary == [tile |-> Summary, content |-> <<"x">>]
sPadSummary == [tile |-> <<WS, "Summary">>, content |-> <<"y">>]
sBlank == [tile |-> <<"B">>, content |-> <<WS>>]
sNoTile == [content |-> <<"y">>]
sNoContent == [tile |-> <<"C">>]
sOnlySummary == [tile |-> <<"D">>, content |-> <<WS, "Summary", WS>>]
sTen == [tile |-> <<"T">>, content |-> [i \in 1..IdStride |-> "w"]]
sLead == [tile |-> <<"E">>, content |-> <<"Summary", "z">>]

HeaderPool ==
    { [sections |-> <<sPadded, sSummary>>],
      [sections |-> <<sNoTile, sLower>>],
      [sections |-> <<sLong>>],
      [sections |-> <<sBlank, sPadSummary, sNoContent>>],
      [sections |-> <<sOnlySummary>>],
      [sections |-> <<sTen, sLead>>],
      [sections |-> <<>>],
      [name |-> <<"H">>] }

RECURSIVE SeqsUpTo(_, _)
SeqsUpTo(S, n) ==
    IF n = 0 THEN {<<>>}
    ELSE LET shorter == SeqsUpTo(S, n - 1)
         IN  shorter \cup {Append(s, x) : s \in {t \in shorter : Len(t) = n - 1}, x \in S}

Corpora == SeqsUpTo(HeaderPool, MaxHeaders)

Files == {[kind |-> "json", data |-> c] : c \in Corpora} \cup {[kind |-> "garbage"]}

\* -------------------------------------------------- section extraction
SectionTitle(section) == Strip(Get(section, "tile", <<>>))
SectionContent(section) == Strip(Get(section, "content", <<>>))

\* the filter without the trimming
KeepSectionUntrimmed(section) ==
    /\ Get(section, "tile", <<>>) # <<>>
    /\ Get(section, "tile", <<>>) # Summary
    /\ Get(section, "content", <<>>) # <<>>

KeepSection(section) ==
    /\ SectionTitle(section) # <<>>
    /\ SectionTitle(section) # Summary
    /\ SectionContent(section) # <<>>

Extracted(section) == [title |-> SectionTitle(section), text |-> SectionContent(section)]

RECURSIVE FilterSections(_)
FilterSections(secs) ==
    IF secs = <<>> THEN <<>>
    ELSE IF KeepSection(Head(secs))
         THEN <<Extracted(Head(secs))>> \o FilterSections(Tail(secs))
         ELSE FilterSections(Tail(secs))

WellFormed(data) == \A h \in 1..Len(data) : "sections" \in DOMAIN data[h]

RECURSIVE ExtractSections(_)
ExtractSections(data) ==
    IF data = <<>> THEN <<>>
    ELSE FilterSections(Head(data).sections) \o ExtractSections(Tail(data))

\* ------------------------------------------- embedding service (external)
\* get_text_embedding: deterministic in the text; a vector of VectorSize
\* dimensions whose direction is abstracted to one of three classes.
Embed(text) == [dim |-> VectorSize, dir |-> Len(Strip(text)) % 3]

\* cosine similarity in thousandths
Similarity(u, v) ==
    LET d == IF u.dir < v.dir THEN v.dir - u.dir ELSE u.dir - v.dir
    IN  IF d = 0 THEN 1000 ELSE IF d = 1 THEN 504 ELSE 126

\* f"{score:.2f}": thousandths rendered as hundredths
Fmt2(milli) == (milli + 5) \div 10

\* --------------------------------------------- semantic splitter (external)
\* get_nodes_from_documents: contiguous groups of the text's units, in order;
\* g is where the embedding distances put the breakpoints (every g units).
Split(text, g) ==
    LET n == (Len(text) + g - 1) \div g
    IN  [k \in 1..n |-> SubSeq(text, (k - 1) * g + 1, Min(k * g, Len(text)))]

\* ------------------------------------------------ points of one section
SkipChunk(content) == Strip(content) = <<>> \/ Strip(content) = Summary

\* a wider stride
PointIdWide(idx, inner) == idx * IdStride * IdStride + inner

PointId(idx, inner) == idx * IdStride + inner

\* the point carrying the whole section instead of the chunk
MakePointWholeSection(idx, inner, section, content) ==
    [id |-> PointId(idx, inner),
     vector |-> Embed(content),
     payload |-> [title |-> section.title, text |-> section.text],
     origin |-> <<idx, inner>>]

MakePoint(idx, inner, section, content) ==
    [id |-> PointId(idx, inner),
     vector |-> Embed(content),
     payload |-> [title |-> section.title, text |-> content],
     origin |-> <<idx, inner>>]

RECURSIVE ChunkPoints(_, _, _, _)
ChunkPoints(idx, section, chunks, inner) ==
    IF inner >= Len(chunks) THEN <<>>
    ELSE IF SkipChunk(chunks[inner + 1])
         THEN ChunkPoints(idx, section, chunks, inner + 1)
         ELSE <<MakePoint(idx, inner, section, chunks[inner + 1])>>
              \o ChunkPoints(idx, section, chunks, inner + 1)

SectionPoints(idx, section, g) == ChunkPoints(idx, section, Split(section.text, g), 0)

\* --------------------------------------------- vector database (external)
FreshCollection == [size |-> VectorSize, points |-> <<>>]

Stored(pt) == [vector |-> pt.vector, payload |-> pt.payload, origin |-> pt.origin]

BatchIds(batch) == {batch[k].id : k \in 1..Len(batch)}

LastWith(batch, i) ==
    CHOOSE k \in 1..Len(batch) :
        /\ batch[k].id = i
        /\ \A m \in 1..Len(batch) : batch[m].id = i => m <= k

\* upsert: insert or overwrite by id, in batch order
UpsertPoints(store, batch) ==
    [i \in DOMAIN store \cup BatchIds(batch) |->
        IF i \in BatchIds(batch) THEN Stored(batch[LastWith(batch, i)]) ELSE store[i]]

PointsCount(c) == Cardinality(DOMAIN c.points)

\* -------------------------------------------------------------------- state
VARIABLES
    qdrant_up,      \* the vector database answers calls
    ollama_up,      \* the embedding service answers calls
    coll,           \* the collection named collection_name: NoColl or [size, points]
    others,         \* names of the other collections of the database
    fs,             \* files on disk: path -> content
    grain,          \* where the splitter breaks (fixed: deterministic chunker)
    top_k,          \* self.top_k
    pc,             \* per caller: position inside populate_database
    path,           \* per caller: json_file_path
    sections_data,  \* per caller: local sections_data
    points,         \* per caller: local points
    index,          \* per caller: sections already chunked
    result,         \* per caller: the returned record
    delRaised,      \* per caller: delete_collection raised in this call (history)
    upserts,        \* per caller: upsert calls completed in this call (history)
    crossed,        \* per caller: another caller dropped or created during this call (history)
    prev,           \* path and collection after the previous successful call (history)
    ret             \* what retrieve_context / check_connection returned last

vars ==
    <<qdrant_up, ollama_up, coll, others, fs, grain, top_k, pc, path, sections_data,
      points, index, result, delRaised, upserts, crossed, prev, ret>>

envVars == <<qdrant_up, ollama_up>>
setupVars == <<others, fs, grain, top_k>>
localVars == <<sections_data, points, index>>

\* the exception leaving populate_database instead of being returned
FailureEscapes(msg) == [raised |-> msg]

Failure(msg) == [success |-> FALSE, error |-> msg]

Success(secs, pts) ==
    [success |-> TRUE, sections_processed |-> Len(secs), chunks_created |-> Len(pts)]

Running(q) == pc[q] \in {"create", "load", "split", "upsert"}

\* another caller's drop or create lands inside the calls now running
Cross(p) == [q \in Procs |-> IF q # p /\ Running(q) THEN TRUE ELSE crossed[q]]

\* ------------------------------------------------ populate_database, by step
\* the call without its drop: the old collection stays
DeleteStepKeeps(p) ==
    /\ pc[p] = "idle"
    /\ \E pth \in Paths : path' = [path EXCEPT ![p] = pth]
    /\ coll' = coll
    /\ delRaised' = [delRaised EXCEPT ![p] = FALSE]
    /\ pc' = [pc EXCEPT ![p] = "create"]
    /\ sections_data' = [sections_data EXCEPT ![p] = <<>>]
    /\ points' = [points EXCEPT ![p] = <<>>]
    /\ index' = [index EXCEPT ![p] = 0]
    /\ result' = [result EXCEPT ![p] = None]
    /\ upserts' = [upserts EXCEPT ![p] = 0]
    /\ crossed' = [Cross(p) EXCEPT ![p] = FALSE]
    /\ UNCHANGED <<envVars, setupVars, prev, ret>>

\* Step 1: delete_collection; whatever it raises is swallowed.
DeleteStep(p) ==
    /\ pc[p] = "idle"
    /\ \E pth \in Paths : path' = [path EXCEPT ![p] = pth]
    /\ \/ /\ qdrant_up
          /\ coll' = NoColl
          /\ \E raised \in (IF coll = NoColl THEN BOOLEAN ELSE {FALSE}) :
                delRaised' = [delRaised EXCEPT ![p] = raised]
       \/ /\ ~qdrant_up
          /\ coll' = coll
          /\ delRaised' = [delRaised EXCEPT ![p] = TRUE]
    /\ pc' = [pc EXCEPT ![p] = "create"]
    /\ sections_data' = [sections_data EXCEPT ![p] = <<>>]
    /\ points' = [points EXCEPT ![p] = <<>>]
    /\ index' = [index EXCEPT ![p] = 0]
    /\ result' = [result EXCEPT ![p] = None]
    /\ upserts' = [upserts EXCEPT ![p] = 0]
    /\ crossed' = [Cross(p) EXCEPT ![p] = FALSE]
    /\ UNCHANGED <<envVars, setupVars, prev, ret>>

Return(p, r) ==
    /\ pc' = [pc EXCEPT ![p] = "done"]
    /\ result' = [result EXCEPT ![p] = r]

\* create-if-missing: an existing collection is kept as it is
CreateStepIfMissing(p) ==
    /\ pc[p] = "create"
    /\ \/ /\ qdrant_up
          /\ coll' = IF coll = NoColl THEN FreshCollection ELSE coll
          /\ pc' = [pc EXCEPT ![p] = "load"]
          /\ crossed' = Cross(p)
          /\ UNCHANGED result
       \/ /\ ~qdrant_up
          /\ Return(p, Failure("connection refused"))
          /\ UNCHANGED <<coll, crossed>>
    /\ UNCHANGED <<envVars, setupVars, path, localVars, delRaised, upserts, prev, ret>>

\* Step 2: create_collection; raises when the database is down or the name is taken.
CreateStep(p) ==
    /\ pc[p] = "create"
    /\ \/ /\ qdrant_up /\ coll = NoColl
          /\ coll' = FreshCollection
          /\ pc' = [pc EXCEPT ![p] = "load"]
          /\ crossed' = Cross(p)
          /\ UNCHANGED result
       \/ /\ ~qdrant_up
          /\ Return(p, Failure("connection refused"))
          /\ UNCHANGED <<coll, crossed>>
       \/ /\ qdrant_up /\ coll # NoColl
          /\ Return(p, Failure("collection already exists"))
          /\ UNCHANGED <<coll, crossed>>
    /\ UNCHANGED <<envVars, setupVars, path, localVars, delRaised, upserts, prev, ret>>

\* Steps 3 and 4: open, json.load, extract and filter the sections.
LoadStep(p) ==
    /\ pc[p] = "load"
    /\ \/ /\ path[p] \notin DOMAIN fs
          /\ Return(p, Failure("no such file"))
          /\ UNCHANGED sections_data
       \/ /\ path[p] \in DOMAIN fs /\ fs[path[p]].kind # "json"
          /\ Return(p, Failure("invalid json"))
          /\ UNCHANGED sections_data
       \/ /\ path[p] \in DOMAIN fs /\ fs[path[p]].kind = "json"
          /\ ~WellFormed(fs[path[p]].data)
          /\ Return(p, Failure("'sections'"))
          /\ UNCHANGED sections_data
       \/ /\ path[p] \in DOMAIN fs /\ fs[path[p]].kind = "json"
          /\ WellFormed(fs[path[p]].data)
          /\ sections_data' = [sections_data EXCEPT ![p] = ExtractSections(fs[path[p]].data)]
          /\ IF sections_data'[p] = <<>>
             THEN Return(p, Failure("No valid sections found in JSON file"))
             ELSE pc' = [pc EXCEPT ![p] = "split"] /\ UNCHANGED result
    /\ UNCHANGED <<envVars, setupVars, coll, path, points, index, delRaised, upserts,
                   crossed, prev, ret>>

\* each section's points written as soon as they are made
SplitStepEagerUpsert(p) ==
    /\ pc[p] = "split"
    /\ \/ /\ ollama_up /\ qdrant_up /\ coll # NoColl
          /\ points' = [points EXCEPT ![p] =
                @ \o SectionPoints(index[p], sections_data[p][index[p] + 1], grain)]
          /\ coll' = [coll EXCEPT !.points = UpsertPoints(@, points'[p])]
          /\ index' = [index EXCEPT ![p] = @ + 1]
          /\ IF index'[p] < Len(sections_data[p])
             THEN UNCHANGED <<pc, result>>
             ELSE IF points'[p] = <<>>
                  THEN Return(p, Failure("No valid chunks created from sections"))
                  ELSE pc' = [pc EXCEPT ![p] = "upsert"] /\ UNCHANGED result
       \/ /\ ~(ollama_up /\ qdrant_up /\ coll # NoColl)
          /\ Return(p, Failure("embedding service unreachable"))
          /\ UNCHANGED <<points, index, coll>>
    /\ UNCHANGED <<envVars, setupVars, path, sections_data, delRaised, upserts,
                   crossed, prev, ret>>

\* Step 6, one section: split it, embed its surviving chunks, append the points;
\* after the last section, the empty-batch check.
SplitStep(p) ==
    /\ pc[p] = "split"
    /\ \/ /\ ollama_up
          /\ points' = [points EXCEPT ![p] =
                @ \o SectionPoints(index[p], sections_data[p][index[p] + 1], grain)]
          /\ index' = [index EXCEPT ![p] = @ + 1]
          /\ IF index'[p] < Len(sections_data[p])
             THEN UNCHANGED <<pc, result>>
             ELSE IF points'[p] = <<>>
                  THEN Return(p, Failure("No valid chunks created from sections"))
                  ELSE pc' = [pc EXCEPT ![p] = "upsert"] /\ UNCHANGED result
       \/ /\ ~ollama_up
          /\ Return(p, Failure("embedding service unreachable"))
          /\ UNCHANGED <<points, index>>
    /\ UNCHANGED <<envVars, setupVars, coll, path, sections_data, delRaised, upserts,
                   crossed, prev, ret>>

\* Step 7: one batch upsert, then the success record.
UpsertStep(p) ==
    /\ pc[p] = "upsert"
    /\ \/ /\ qdrant_up /\ coll # NoColl
          /\ coll' = [coll EXCEPT !.points = UpsertPoints(@, points[p])]
          /\ upserts' = [upserts EXCEPT ![p] = @ + 1]
          /\ Return(p, Success(sections_data[p], points[p]))
       \/ /\ ~qdrant_up
          /\ Return(p, Failure("connection refused"))
          /\ UNCHANGED <<coll, upserts>>
       \/ /\ qdrant_up /\ coll = NoColl
          /\ Return(p, Failure("collection not found"))
          /\ UNCHANGED <<coll, upserts>>
    /\ UNCHANGED <<envVars, setupVars, path, localVars, delRaised, crossed, prev, ret>>

\* The caller (app.py) reads the record; the next click may call again.
Finish(p) ==
    /\ pc[p] = "done"
    /\ pc' = [pc EXCEPT ![p] = "idle"]
    /\ prev' = IF result[p].success THEN [path |-> path[p], coll |-> coll] ELSE prev
    /\ UNCHANGED <<envVars, setupVars, coll, path, localVars, result, delRaised, upserts,
                   crossed, ret>>

Populate(p) ==
    \/ DeleteStep(p)
    \/ CreateStep(p)
    \/ LoadStep(p)
    \/ SplitStep(p)
    \/ UpsertStep(p)
    \/ Finish(p)

\* ----------------------------------------------------------- environment
QdrantFlip ==
    /\ qdrant_up' = ~qdrant_up
    /\ UNCHANGED <<ollama_up, coll, setupVars, pc, path, localVars, result, delRaised,
                   upserts, crossed, prev, ret>>

OllamaFlip ==
    /\ ollama_up' = ~ollama_up
    /\ UNCHANGED <<qdrant_up, coll, setupVars, pc, path, localVars, result, delRaised,
                   upserts, crossed, prev, ret>>

\* ------------------------------------------------------- retrieve_context
Queries == {<<"q">>, <<"q", "r">>, <<WS>>}

Score(c, qvec, i) == Similarity(qvec, c.points[i].vector)

\* query_points: up to k points, by descending score; any order among ties
QueryPoints(c, qvec, k) ==
    LET ids == DOMAIN c.points
        n == Min(k, Cardinality(ids))
    IN  {r \in [1..n -> ids] :
            /\ \A a, b \in 1..n : a < b =>
                  /\ r[a] # r[b]
                  /\ Score(c, qvec, r[a]) >= Score(c, qvec, r[b])
            /\ \A i \in ids :
                  (\A a \in 1..n : r[a] # i) =>
                      \A a \in 1..n : Score(c, qvec, r[a]) >= Score(c, qvec, i)}

ScoredPoint(c, qvec, i) ==
    [id |-> i, score |-> Score(c, qvec, i), payload |-> c.points[i].payload]

\* enumerate(...) without the start of 1
FormatBlockZeroBased(i, point) ==
    [section |-> i - 1,
     relevance |-> Fmt2(point.score),
     title |-> Get(point.payload, "title", Untitled),
     content |-> Get(point.payload, "text", <<>>)]

\* one formatted block: "[Section i - Relevance: s]\nTitle: t\nContent: x\n"
FormatBlock(i, point) ==
    [section |-> i,
     relevance |-> Fmt2(point.score),
     title |-> Get(point.payload, "title", Untitled),
     content |-> Get(point.payload, "text", <<>>)]

FormatContext(hits) == [str |-> [i \in 1..Len(hits) |-> FormatBlock(i, hits[i])]]

Sentinel == [str |-> <<[lit |-> NoContext]>>]

\* the exception leaving retrieve_context
Propagated(msg) == [raised |-> msg]

\* except Exception as e: return f"Error retrieving context: {str(e)}"
Caught(msg) == [str |-> <<[lit |-> "Error retrieving context: "], [lit |-> msg]>>]

RetrieveContext ==
    /\ ret = None
    /\ \E query \in Queries :
          \/ /\ ~ollama_up
             /\ ret' = [op |-> "retrieve", hits |-> <<>>,
                        out |-> Caught("embedding service unreachable")]
          \/ /\ ollama_up /\ ~qdrant_up
             /\ ret' = [op |-> "retrieve", hits |-> <<>>, out |-> Caught("connection refused")]
          \/ /\ ollama_up /\ qdrant_up /\ coll = NoColl
             /\ ret' = [op |-> "retrieve", hits |-> <<>>, out |-> Caught("collection not found")]
          \/ /\ ollama_up /\ qdrant_up /\ coll # NoColl
             /\ coll.size # Embed(query).dim
             /\ ret' = [op |-> "retrieve", hits |-> <<>>, out |-> Caught("vector dimension error")]
          \/ /\ ollama_up /\ qdrant_up /\ coll # NoColl
             /\ coll.size = Embed(query).dim
             /\ \E r \in QueryPoints(coll, Embed(query), top_k) :
                   LET hits == [a \in 1..Len(r) |-> ScoredPoint(coll, Embed(query), r[a])]
                   IN  ret' = [op |-> "retrieve", hits |-> hits,
                               out |-> IF hits = <<>> THEN Sentinel ELSE FormatContext(hits)]
    /\ UNCHANGED <<envVars, setupVars, coll, pc, path, localVars, result, delRaised,
                   upserts, crossed, prev>>

\* -------------------------------------------------------- check_connection
\* the exception leaving check_connection
StatusRaised(msg) == [raised |-> msg]

StatusError(msg) == [status |-> "error", error |-> msg]

CheckConnection ==
    /\ ret = None
    /\ \/ /\ ~qdrant_up
          /\ ret' = [op |-> "check", out |-> StatusError("connection refused")]
       \/ /\ qdrant_up /\ coll # NoColl
          /\ ret' = [op |-> "check",
                     out |-> [status |-> "connected", collection_exists |-> TRUE,
                              points_count |-> PointsCount(coll),
                              vector_size |-> coll.size]]
       \/ /\ qdrant_up /\ coll = NoColl
          /\ ret' = [op |-> "check",
                     out |-> [status |-> "connected", collection_exists |-> FALSE,
                              available_collections |-> others]]
    /\ UNCHANGED <<envVars, setupVars, coll, pc, path, localVars, result, delRaised,
                   upserts, crossed, prev>>

\* The caller (app.py) renders what was returned.
Render ==
    /\ ret # None
    /\ ret' = None
    /\ UNCHANGED <<envVars, setupVars, coll, pc, path, localVars, result, delRaised,
                   upserts, crossed, prev>>

\* ------------------------------------------------------------------ initial
ForeignPoint ==
    [vector |-> [dim |-> VectorSize, dir |-> 1],
     payload |-> [text |-> <<"old">>],
     origin |-> <<-1, -1>>]

ForeignCollection == [size |-> VectorSize, points |-> (0 :> ForeignPoint) @@ (77 :> ForeignPoint)]

InitCallers ==
    /\ pc = [p \in Procs |-> "idle"]
    /\ path = [p \in Procs |-> "corpus"]
    /\ sections_data = [p \in Procs |-> <<>>]
    /\ points = [p \in Procs |-> <<>>]
    /\ index = [p \in Procs |-> 0]
    /\ result = [p \in Procs |-> None]
    /\ delRaised = [p \in Procs |-> FALSE]
    /\ upserts = [p \in Procs |-> 0]
    /\ crossed = [p \in Procs |-> FALSE]
    /\ prev = None
    /\ ret = None

Init ==
    /\ qdrant_up = TRUE
    /\ ollama_up = TRUE
    /\ coll \in {NoColl, FreshCollection, ForeignCollection}
    /\ others = {}
    /\ fs \in [{"corpus"} -> Files]
    /\ grain \in 1..MaxGrain
    /\ top_k = DefaultTopK
    /\ InitCallers

Next ==
    \/ Populate(1)
    \/ QdrantFlip
    \/ OllamaFlip

Spec == Init /\ [][Next]_vars

\* ---- retrieval and health check against a collection someone has loaded
PointPool ==
    (0 :> [vector |-> Embed(<<"x">>), payload |-> [title |-> <<"A">>, text |-> <<"x">>],
           origin |-> <<0, 0>>])
    @@ (1 :> [vector |-> Embed(<<"w", "w">>),
              payload |-> [title |-> <<"A">>, text |-> <<"w", "w">>], origin |-> <<0, 1>>])
    @@ (10 :> [vector |-> Embed(<<"y">>), payload |-> [title |-> <<"L">>, text |-> <<"y">>],
               origin |-> <<1, 0>>])
    @@ (77 :> ForeignPoint)

Restrict(f, S) == [i \in S |-> f[i]]

CollPool ==
    {NoColl, [size |-> 4, points |-> Restrict(PointPool, {77})]}
    \cup {[size |-> VectorSize, points |-> Restrict(PointPool, S)] : S \in SUBSET DOMAIN PointPool}

InitQuery ==
    /\ qdrant_up = TRUE
    /\ ollama_up = TRUE
    /\ coll \in CollPool
    /\ others \in {{}, {"docs"}}
    /\ fs = <<>>
    /\ grain = 1
    /\ top_k \in 1..MaxHits
    /\ InitCallers

NextQuery ==
    \/ RetrieveContext
    \/ CheckConnection
    \/ Render
    \/ QdrantFlip
    \/ OllamaFlip

SpecQuery == InitQuery /\ [][NextQuery]_vars

\* ---- two callers, one call each, on the same collection; no service outage
ConcFiles ==
    {[kind |-> "json", data |-> <<[sections |-> <<sPadded, sSummary>>]>>],
     [kind |-> "json",
      data |-> <<[sections |-> <<sNoTile, sLower>>], [sections |-> <<sPadded>>]>>]}

InitConc ==
    /\ qdrant_up = TRUE
    /\ ollama_up = TRUE
    /\ coll \in {NoColl, ForeignCollection}
    /\ others = {}
    /\ fs \in [Paths -> ConcFiles]
    /\ grain \in 1..MaxGrain
    /\ top_k = DefaultTopK
    /\ InitCallers

NextConc ==
    \E p \in Procs :
        \/ DeleteStep(p)
        \/ CreateStep(p)
        \/ LoadStep(p)
        \/ SplitStep(p)
        \/ UpsertStep(p)

SpecConc == InitConc /\ [][NextConc]_vars

\* ===================================================================== claims
Done(p) == pc[p] = "done"
Succeeded(p) == Done(p) /\ result[p].success
Failed(p) == Done(p) /\ ~result[p].success

\* C1: after a populate_database call that returns success=true, the
\* collection's points count equals the returned chunks_created, for every
\* corpus and every number of chunks per section.
C1_PointsCountIsChunksCreated ==
    \A p \in Procs : Succeeded(p) => PointsCount(coll) = result[p].chunks_created

\* C2 as stated: the call always ends in a record; a failure of any step,
\* the collection delete included, gives success=false with an error; and
\* success=true only after the upsert completed.
C2_EveryStepFailureFails ==
    \A p \in Procs :
        Done(p) =>
            /\ result[p].success \in BOOLEAN
            /\ ~result[p].success => result[p].error # ""
            /\ result[p].success => upserts[p] = 1
            /\ delRaised[p] => ~result[p].success

\* C2 amended: the call always ends in a record, never in an escaped
\* exception; success=true only if create, load, extraction, chunking,
\* embedding and the upsert all completed (so a failure of any of those gives
\* success=false), and every failure record carries a non-empty error.  A
\* failure of the collection delete is swallowed and decides nothing.
C2_FailureIsReturned ==
    \A p \in Procs :
        /\ pc[p] \in {"idle", "create", "load", "split", "upsert", "done"}
        /\ Done(p) =>
            /\ result[p] # None
            /\ "success" \in DOMAIN result[p]
            /\ result[p].success \in BOOLEAN
            /\ ~result[p].success =>
                  /\ DOMAIN result[p] = {"success", "error"}
                  /\ result[p].error # ""
            /\ result[p].success =>
                  /\ upserts[p] = 1
                  /\ coll # NoColl
                  /\ path[p] \in DOMAIN fs
                  /\ fs[path[p]].kind = "json"
                  /\ WellFormed(fs[path[p]].data)
                  /\ sections_data[p] # <<>>
                  /\ index[p] = Len(sections_data[p])
                  /\ points[p] # <<>>

\* C2 witness: a call whose delete raised and which still returned success.
C2_Witness == \E p \in Procs : Succeeded(p) /\ delRaised[p]

\* C3: the extracted sections are exactly the source's sections whose trimmed
\* title is non-empty and not "Summary" and whose trimmed content is
\* non-empty, in header order then section order; sections_processed counts
\* them.
RECURSIVE Flatten(_)
Flatten(data) == IF data = <<>> THEN <<>> ELSE Head(data).sections \o Flatten(Tail(data))

Trimmed(section, field) ==
    IF field \in DOMAIN section THEN Strip(section[field]) ELSE <<>>

Wanted(flat) ==
    {i \in 1..Len(flat) :
        /\ Trimmed(flat[i], "tile") # <<>>
        /\ Trimmed(flat[i], "tile") # <<"Summary">>
        /\ Trimmed(flat[i], "content") # <<>>}

RankIn(K, i) == Cardinality({k \in K : k <= i})

IsFilterOf(secs, flat) ==
    /\ Len(secs) = Cardinality(Wanted(flat))
    /\ \A i \in Wanted(flat) :
          /\ secs[RankIn(Wanted(flat), i)].title = Trimmed(flat[i], "tile")
          /\ secs[RankIn(Wanted(flat), i)].text = Trimmed(flat[i], "content")

C3_SectionsAreTheFilteredSource ==
    \A p \in Procs :
        /\ (pc[p] \in {"split", "upsert"} \/ Succeeded(p)) =>
              IsFilterOf(sections_data[p], Flatten(fs[path[p]].data))
        /\ Succeeded(p) =>
              result[p].sections_processed =
                  Cardinality(Wanted(Flatten(fs[path[p]].data)))
        /\ (Failed(p) /\ result[p].error = "No valid sections found in JSON file") =>
              Wanted(Flatten(fs[path[p]].data)) = {}

\* C3 witness: a successful call that dropped some sections and kept two or
\* more, from more than one header.
C3_Witness ==
    \E p \in Procs :
        /\ Succeeded(p)
        /\ Len(fs[path[p]].data) > 1
        /\ result[p].sections_processed >= 2
        /\ result[p].sections_processed < Len(Flatten(fs[path[p]].data))

\* C4: after a successful call the collection holds exactly the points of
\* that call's batch, whatever it held before; and a successful call on the
\* same corpus as the previous successful call leaves the same collection.
C4_PopulateIsIdempotent ==
    \A p \in Procs :
        Succeeded(p) =>
            /\ coll = [size |-> VectorSize, points |-> UpsertPoints(<<>>, points[p])]
            /\ (prev # None /\ prev.path = path[p]) => coll = prev.coll

\* C4 witness: a second successful call on the same corpus.
C4_Witness ==
    \E p \in Procs : Succeeded(p) /\ prev # None /\ prev.path = path[p]

\* C7: every point written carries the title of the one section whose
\* content produced its text, its text is one chunk of that section, and no
\* written text is empty or "Summary" after trimming.
FromItsSection(p, pt) ==
    LET s == pt.origin[1] + 1
        c == pt.origin[2] + 1
    IN  /\ s \in 1..Len(sections_data[p])
        /\ pt.payload.title = sections_data[p][s].title
        /\ c \in 1..Len(Split(sections_data[p][s].text, grain))
        /\ pt.payload.text = Split(sections_data[p][s].text, grain)[c]
        /\ Strip(pt.payload.text) # <<>>
        /\ Strip(pt.payload.text) # <<"Summary">>

C7_PointBelongsToOneSection ==
    \A p \in Procs :
        /\ \A k \in 1..Len(points[p]) : FromItsSection(p, points[p][k])
        /\ Succeeded(p) => \A i \in DOMAIN coll.points : FromItsSection(p, coll.points[i])

\* C7 witness: a successful call that wrote points of two sections and
\* skipped a chunk.
C7_Witness ==
    \E p \in Procs :
        /\ Succeeded(p)
        /\ \E i, j \in DOMAIN coll.points : coll.points[i].origin[1] # coll.points[j].origin[1]
        /\ \E s \in 1..Len(sections_data[p]) :
              \E c \in 1..Len(Split(sections_data[p][s].text, grain)) :
                  SkipChunk(Split(sections_data[p][s].text, grain)[c])

\* C9: the collection is recreated before the corpus is read and written at
\* most once, after the last section; a call that fails between create and
\* upsert returns success=false and leaves the collection present and empty.
BeforeUpsertErrors ==
    {"no such file", "invalid json", "'sections'", "No valid sections found in JSON file",
     "embedding service unreachable", "No valid chunks created from sections"}

C9_FailureLeavesEmptyCollection ==
    /\ pc[1] \in {"load", "split", "upsert"} => coll = FreshCollection /\ upserts[1] = 0
    /\ upserts[1] <= 1
    /\ upserts[1] = 1 => index[1] = Len(sections_data[1])
    /\ (Failed(1) /\ result[1].error \in BeforeUpsertErrors) =>
          coll = FreshCollection /\ upserts[1] = 0

\* C9 witness: the corpus yields no surviving chunk; the call fails and the
\* collection is there, empty.
C9_Witness ==
    /\ Failed(1)
    /\ result[1].error = "No valid chunks created from sections"
    /\ coll = FreshCollection

\* C5: retrieve_context always returns a string: the fixed sentinel when the
\* query yields no points (an existing, empty collection included), and an
\* error string when embedding or querying fails.
IsErrorString(o) ==
    /\ DOMAIN o = {"str"}
    /\ Len(o.str) = 2
    /\ o.str[1] = [lit |-> "Error retrieving context: "]
    /\ DOMAIN o.str[2] = {"lit"}
    /\ o.str[2].lit # ""

QueryCanRun == ollama_up /\ qdrant_up /\ coll # NoColl /\ coll.size = VectorSize

C5_RetrieveIsFailSoft ==
    [][(ret = None /\ ret' # None /\ ret'.op = "retrieve") =>
          /\ DOMAIN ret'.out = {"str"}
          /\ ~QueryCanRun => IsErrorString(ret'.out)
          /\ QueryCanRun =>
                /\ ret'.hits = <<>> <=> ret'.out.str = <<[lit |-> NoContext]>>
                /\ PointsCount(coll) = 0 => ret'.out.str = <<[lit |-> NoContext]>>
                /\ ~IsErrorString(ret'.out)]_vars

\* C5 witness: the collection exists and is empty, and the sentinel came back.
C5_Witness ==
    /\ ret # None
    /\ ret.op = "retrieve"
    /\ coll = FreshCollection
    /\ ret.out = [str |-> <<[lit |-> NoContext]>>]

\* C6: check_connection always returns a status record: status "error" with
\* an error when the database is unreachable; otherwise "connected", with
\* collection_exists=true, points_count and vector_size when the collection
\* exists and collection_exists=false and available_collections when not.
C6_CheckConnectionReports ==
    [][(ret = None /\ ret' # None /\ ret'.op = "check") =>
          /\ "status" \in DOMAIN ret'.out
          /\ ~qdrant_up =>
                /\ DOMAIN ret'.out = {"status", "error"}
                /\ ret'.out.status = "error"
                /\ ret'.out.error # ""
          /\ (qdrant_up /\ coll # NoColl) =>
                /\ DOMAIN ret'.out =
                      {"status", "collection_exists", "points_count", "vector_size"}
                /\ ret'.out.status = "connected"
                /\ ret'.out.collection_exists = TRUE
                /\ ret'.out.points_count = Cardinality(DOMAIN coll.points)
                /\ ret'.out.vector_size = coll.size
          /\ (qdrant_up /\ coll = NoColl) =>
                /\ DOMAIN ret'.out = {"status", "collection_exists", "available_collections"}
                /\ ret'.out.status = "connected"
                /\ ret'.out.collection_exists = FALSE
                /\ ret'.out.available_collections = others]_vars

\* C6 witness: the database was unreachable and the record says so.
C6_Witness ==
    /\ ret # None
    /\ ret.op = "check"
    /\ ret.out.status = "error"
    /\ ret.out.error # ""

\* C8: when the query returns points there is exactly one block per returned
\* point, at most top_k of them, numbered 1..n in the order returned (scores
\* descending), each with that point's score to two decimals, title and text.
C8_OneBlockPerHit ==
    (ret # None /\ ret.op = "retrieve" /\ ret.hits # <<>>) =>
        LET h == ret.hits
            b == ret.out.str
        IN  /\ Len(b) = Len(h)
            /\ Len(b) <= top_k
            /\ Len(h) = IF PointsCount(coll) < top_k THEN PointsCount(coll) ELSE top_k
            /\ \A i, j \in 1..Len(h) : i < j => h[i].id # h[j].id /\ h[i].score >= h[j].score
            /\ \A i \in 1..Len(h) :
                  /\ h[i].id \in DOMAIN coll.points
                  /\ h[i].payload = coll.points[h[i].id].payload
                  /\ DOMAIN b[i] = {"section", "relevance", "title", "content"}
                  /\ b[i].section = i
                  /\ 10 * b[i].relevance - 5 <= h[i].score
                  /\ h[i].score < 10 * b[i].relevance + 5
                  /\ b[i].title =
                        IF "title" \in DOMAIN h[i].payload THEN h[i].payload.title
                        ELSE <<"Untitled">>
                  /\ b[i].content = h[i].payload.text

\* C8 witness: more points than top_k, and top_k blocks of differing scores came back.
C8_Witness ==
    /\ ret # None
    /\ ret.op = "retrieve"
    /\ coll # NoColl
    /\ PointsCount(coll) > top_k
    /\ Len(ret.hits) = DefaultTopK
    /\ ret.hits[1].score > ret.hits[DefaultTopK].score
    /\ Len(ret.out.str) = DefaultTopK

\* C10: two concurrent calls are not serialized.  With both services up and
\* valid corpora, a call fails only when the other caller dropped or created
\* the collection during it, and calls that did not overlap leave a serial
\* outcome; the witness is an interleaving that returns success and leaves a
\* point set that no serial order of the two calls produces.
RECURSIVE AllPoints(_, _)
AllPoints(secs, idx) ==
    IF idx >= Len(secs) THEN <<>>
    ELSE SectionPoints(idx, secs[idx + 1], grain) \o AllPoints(secs, idx + 1)

SerialOutcome(pth) ==
    [size |-> VectorSize,
     points |-> UpsertPoints(<<>>, AllPoints(ExtractSections(fs[pth].data), 0))]

SerialOutcomes == {SerialOutcome(path[1]), SerialOutcome(path[2])}

C10_OnlyOverlapBreaksPopulate ==
    /\ \A p \in Procs :
          Failed(p) =>
              /\ crossed[p]
              /\ result[p].error \in {"collection already exists", "collection not found"}
    /\ (Done(1) /\ Done(2) /\ ~crossed[1] /\ ~crossed[2]) =>
          /\ result[1].success
          /\ result[2].success
          /\ coll \in SerialOutcomes

\* C10 witness: both calls have returned, one of them success=true, and the
\* collection is not what either serial order leaves.
C10_Witness ==
    /\ Done(1)
    /\ Done(2)
    /\ \E p \in Procs : result[p].success
    /\ coll \notin SerialOutcomes

\* the other destructive interleaving: a call that fails on the other's drop
C10_WitnessFailure ==
    \E p \in Procs :
        Failed(p) /\ crossed[p] /\ result[p].error = "collection not found"

\* C11 as stated: ids are section*10 + chunk position, and a batch holds two
\* points of the same id as soon as some section yields 10 or more chunks.
Chunks(p, s) == Split(sections_data[p][s].text, grain)

BatchComplete(p) == pc[p] = "upsert" \/ Succeeded(p)

Collides(batch) ==
    \E k, m \in 1..Len(batch) : k < m /\ batch[k].id = batch[m].id

C11_TenChunksCollide ==
    \A p \in Procs :
        (BatchComplete(p) /\ \E s \in 1..Len(sections_data[p]) : Len(Chunks(p, s)) >= 10) =>
            Collides(points[p])

\* C11 amended: every point's id is 10 * (its section's position among the
\* surviving sections) + (its chunk's position in the splitter's output,
\* skipped chunks counted).  Two points of one batch share an id only if a
\* section that is not the last yields 11 or more chunks; they do share one
\* when the chunk at position 10 of a section and the first chunk of the next
\* section both survive.  A section of exactly 10 chunks collides with nothing.
SurvivesAt(p, s, j) ==
    /\ s \in 1..Len(sections_data[p])
    /\ j + 1 \in 1..Len(Chunks(p, s))
    /\ Strip(Chunks(p, s)[j + 1]) # <<>>
    /\ Strip(Chunks(p, s)[j + 1]) # <<"Summary">>

C11_IdIsSectionTimesTenPlusChunk ==
    \A p \in Procs :
        /\ \A k \in 1..Len(points[p]) :
              LET pt == points[p][k]
              IN  /\ pt.id = 10 * pt.origin[1] + pt.origin[2]
                  /\ SurvivesAt(p, pt.origin[1] + 1, pt.origin[2])
                  /\ pt.payload.title = sections_data[p][pt.origin[1] + 1].title
                  /\ pt.payload.text = Chunks(p, pt.origin[1] + 1)[pt.origin[2] + 1]
        /\ \A k, m \in 1..Len(points[p]) : k < m =>
              \/ points[p][k].origin[1] < points[p][m].origin[1]
              \/ /\ points[p][k].origin[1] = points[p][m].origin[1]
                 /\ points[p][k].origin[2] < points[p][m].origin[2]
        /\ BatchComplete(p) =>
              /\ \A s \in 1..Len(sections_data[p]) : \A j \in 0..(Len(Chunks(p, s)) - 1) :
                    SurvivesAt(p, s, j) =>
                        \E k \in 1..Len(points[p]) : points[p][k].origin = <<s - 1, j>>
              /\ Collides(points[p]) =>
                    \E s \in 1..(Len(sections_data[p]) - 1) : Len(Chunks(p, s)) >= 11
              /\ (\E s \in 1..(Len(sections_data[p]) - 1) :
                      SurvivesAt(p, s, 10) /\ SurvivesAt(p, s + 1, 0)) =>
                    Collides(points[p])

\* C11 witness: a finished batch with two points of one id, and a point whose
\* chunk position counts a skipped chunk before it.
C11_Witness ==
    \E p \in Procs :
        /\ Succeeded(p)
        /\ Collides(points[p])
        /\ \E k \in 1..Len(points[p]) :
              /\ points[p][k].origin[2] > 0
              /\ ~SurvivesAt(p, points[p][k].origin[1] + 1, points[p][k].origin[2] - 1)

====
